---------------------------- MODULE Spec2Model ----------------------------
(***************************************************************************)
(* A model of wpress-oxide: the header codec (src/src/common.rs), the      *)
(* archive Writer (src/src/writer.rs) and the archive Reader               *)
(* (src/src/reader.rs).                                                    *)
(*                                                                         *)
(* Bytes are integers 0..255; strings, paths and streams are sequences of  *)
(* bytes.  A u64 is kept as its base-10 digit sequence (most significant   *)
(* digit first, no leading zero): the values the codec has to tell apart   *)
(* (14 against 15 decimal digits) are beyond 32-bit integers.              *)
(*                                                                         *)
(* An operator that needs an intermediate value hands it to a helper as a  *)
(* parameter (from_file, FromFileParts, FromFileTexts): the helpers of one *)
(* function are the successive parts of its body.                          *)
(***************************************************************************)
EXTENDS Integers, Sequences, FiniteSets, TLC

(***************************************************************************)
(* common.rs: layout constants                                             *)
(***************************************************************************)
HEADER_SIZE == 4377
FILENAME == 255
SIZE_BEGIN == FILENAME
SIZE == 14
MTIME == 12
PREFIX == 4096
SIZE_END == FILENAME + SIZE
MTIME_BEGIN == SIZE_END
MTIME_END == SIZE_END + MTIME
PREFIX_BEGIN == MTIME_END

\* n copies of byte c
Rep(c, n) == [i \in 1..n |-> c]

EOF_BLOCK == Rep(0, HEADER_SIZE)

\* "/", "." and "..", and U+FFFD, the replacement character of
\* String::from_utf8_lossy
Slash == <<47>>
Dot == <<46>>
DotDot == <<46, 46>>
Replacement == <<239, 191, 189>>

Min2(a, b) == IF a <= b THEN a ELSE b

(***************************************************************************)
(* u64 values as digit sequences                                           *)
(***************************************************************************)
RECURSIVE U64FromInt(_)
U64FromInt(k) == IF k < 10 THEN <<k>> ELSE Append(U64FromInt(k \div 10), k % 10)

RECURSIVE U64ToInt(_)
\* defined for values of at most 9 digits
U64ToInt(d) ==
    IF Len(d) = 1 THEN d[1]
    ELSE 10 * U64ToInt(SubSeq(d, 1, Len(d) - 1)) + d[Len(d)]

\* u64::MAX = 18446744073709551615
U64MaxDigits == <<1,8,4,4,6,7,4,4,0,7,3,7,0,9,5,5,1,6,1,5>>

\* a <= b for two digit sequences of the same length
DigitsLeq(a, b) ==
    \/ a = b
    \/ \E i \in 1..Len(a) : /\ a[i] < b[i]
                            /\ \A j \in 1..(i - 1) : a[j] = b[j]

\* u64::to_string: the decimal ASCII text
U64ToString(d) == [i \in 1..Len(d) |-> 48 + d[i]]

\* the index of the first digit that is not a leading zero
FirstSignificant(body) ==
    IF \A i \in 1..Len(body) : body[i] = 48 THEN Len(body)
    ELSE CHOOSE i \in 1..Len(body) :
            body[i] # 48 /\ \A j \in 1..(i - 1) : body[j] = 48

\* the value of a string of ASCII digits
DigitsValue(body, first) == [i \in 1..(Len(body) - first + 1) |-> body[first + i - 1] - 48]

ParsedU64(val) ==
    IF Len(val) > 20 \/ (Len(val) = 20 /\ ~DigitsLeq(val, U64MaxDigits))
    THEN [ok |-> FALSE, val |-> <<0>>]
    ELSE [ok |-> TRUE, val |-> val]

ParseDigits(body) ==
    IF body = <<>> \/ \E i \in 1..Len(body) : body[i] \notin 48..57
    THEN [ok |-> FALSE, val |-> <<0>>]
    ELSE ParsedU64(DigitsValue(body, FirstSignificant(body)))

\* str::parse::<u64>: an optional leading '+', then one or more ASCII digits,
\* no overflow.  The result is [ok, val].
ParseU64(s) == ParseDigits(IF s # <<>> /\ s[1] = 43 THEN Tail(s) ELSE s)

(***************************************************************************)
(* UTF-8.  The model's strings are made of ASCII bytes, the byte 0xFF      *)
(* (never valid in UTF-8) and U+FFFD (EF BF BD); validity and the lossy    *)
(* conversion are exact on that alphabet.                                  *)
(***************************************************************************)
Utf8Valid(s) ==
    \A i \in 1..Len(s) :
        \/ s[i] < 128
        \/ s[i] = 239 /\ i + 2 <= Len(s) /\ s[i+1] = 191 /\ s[i+2] = 189
        \/ s[i] = 191 /\ i >= 2 /\ i + 1 <= Len(s) /\ s[i-1] = 239 /\ s[i+1] = 189
        \/ s[i] = 189 /\ i >= 3 /\ s[i-2] = 239 /\ s[i-1] = 191

RECURSIVE to_string_lossy(_)
\* OsStr::to_string_lossy on ASCII and 0xFF bytes: every invalid byte becomes
\* U+FFFD, three bytes long.
to_string_lossy(s) ==
    IF Len(s) = 0 THEN <<>>
    ELSE IF Len(s) = 1 THEN (IF s[1] < 128 THEN s ELSE Replacement)
    ELSE to_string_lossy(SubSeq(s, 1, Len(s) \div 2))
         \o to_string_lossy(SubSeq(s, Len(s) \div 2 + 1, Len(s)))

(***************************************************************************)
(* std::path on Unix.  A path is a byte string; its components are the     *)
(* pieces between '/' bytes, without the empty pieces and without "."      *)
(* pieces other than a leading one; a leading '/' is the RootDir           *)
(* component.  RootDir, CurDir and ParentDir are written "/", "." and "..".*)
(***************************************************************************)
RECURSIVE SortSet(_)
SortSet(S) ==
    IF S = {} THEN <<>>
    ELSE (LET m == CHOOSE x \in S : \A y \in S : x <= y
          IN  <<m>> \o SortSet(S \ {m}))

has_root(p) == p # <<>> /\ p[1] = 47

\* the pieces of p between its '/' bytes, as [lo, hi] index ranges
PiecesOf(cuts) ==
    [k \in 1..(Len(cuts) - 1) |-> [lo |-> cuts[k] + 1, hi |-> cuts[k+1] - 1]]

Pieces(p) == PiecesOf(SortSet({0, Len(p) + 1} \cup {i \in 1..Len(p) : p[i] = 47}))

\* piece k of p is a component
IsComponent(p, ps, k) ==
    /\ ps[k].lo <= ps[k].hi
    /\ SubSeq(p, ps[k].lo, ps[k].hi) = Dot => (k = 1 /\ ~has_root(p))

\* the indices of the pieces that are components
KeptOf(p, ps) == SortSet({k \in 1..Len(ps) : IsComponent(p, ps, k)})

ComponentsAt(p, ps, K) ==
    (IF has_root(p) THEN <<Slash>> ELSE <<>>)
    \o [j \in 1..Len(K) |-> SubSeq(p, ps[K[j]].lo, ps[K[j]].hi)]

ComponentsOf(p, ps) == ComponentsAt(p, ps, KeptOf(p, ps))

\* Path::components
components(p) == ComponentsOf(p, Pieces(p))

NoPath == [some |-> FALSE, val |-> <<>>]
SomePath(v) == [some |-> TRUE, val |-> v]

LastNormal(c) ==
    IF c = <<>> \/ c[Len(c)] \in {Slash, Dot, DotDot} THEN NoPath
    ELSE SomePath(c[Len(c)])

\* Path::file_name: the last component when it is a normal one
file_name(p) == LastNormal(components(p))

ParentAt(p, ps, K) ==
    IF K = <<>> THEN NoPath
    ELSE IF Len(K) >= 2 THEN SomePath(SubSeq(p, 1, ps[K[Len(K) - 1]].hi))
    ELSE IF has_root(p) THEN SomePath(Slash)
    ELSE SomePath(<<>>)

ParentOf(p, ps) == ParentAt(p, ps, KeptOf(p, ps))

\* Path::parent: the path without its last component (a slice of p)
parent(p) == ParentOf(p, Pieces(p))

\* PathBuf::push
push(buf, p) ==
    IF has_root(p) THEN p
    ELSE IF buf # <<>> /\ buf[Len(buf)] # 47 THEN buf \o Slash \o p
    ELSE buf \o p

\* Path::join
join(base, p) == push(base, p)

RECURSIVE FromComponents(_)
\* PathBuf: FromIterator, one push per item
FromComponents(cs) ==
    IF cs = <<>> THEN <<>>
    ELSE push(FromComponents(SubSeq(cs, 1, Len(cs) - 1)), cs[Len(cs)])

\* Path == Path compares components
PathEq(a, b) == components(a) = components(b)

RECURSIVE CleanFold(_, _)
\* clean_path::clean, the loop over the components: "." is dropped, ".." pops
\* a normal component, is dropped right after the root and is kept otherwise.
CleanFold(cs, out) ==
    IF cs = <<>> THEN out
    ELSE IF Head(cs) = Dot THEN CleanFold(Tail(cs), out)
    ELSE IF Head(cs) # DotDot THEN CleanFold(Tail(cs), Append(out, Head(cs)))
    ELSE IF out # <<>> /\ out[Len(out)] = Slash THEN CleanFold(Tail(cs), out)
    ELSE IF out # <<>> /\ out[Len(out)] \notin {Dot, DotDot}
    THEN CleanFold(Tail(cs), SubSeq(out, 1, Len(out) - 1))
    ELSE CleanFold(Tail(cs), Append(out, DotDot))

CleanOut(out) == IF out # <<>> THEN FromComponents(out) ELSE Dot

\* clean_path::Clean::clean
clean(p) == CleanOut(CleanFold(components(p), <<>>))

FirstIsRoot(cs) == cs # <<>> /\ cs[1] = Slash

\* Path::starts_with("/")
starts_with_root(p) == FirstIsRoot(components(p))

\* Path::strip_prefix("/")
strip_root(p) == FromComponents(Tail(components(p)))

(***************************************************************************)
(* common.rs: the header codec                                             *)
(***************************************************************************)
NoHeader == [name |-> <<>>, size |-> <<0>>, mtime |-> <<0>>, prefix |-> <<>>, bytes |-> <<>>]
Ok(h) == [ok |-> TRUE, err |-> "", hdr |-> h]
Err(e) == [ok |-> FALSE, err |-> e, hdr |-> NoHeader]

RECURSIVE FirstZero(_, _, _)
\* the first index in lo..hi holding a zero byte, hi + 1 when there is none
FirstZero(block, lo, hi) ==
    IF lo > hi THEN hi + 1
    ELSE IF lo = hi THEN (IF block[lo] = 0 THEN lo ELSE hi + 1)
    ELSE IF \E i \in lo..((lo + hi) \div 2) : block[i] = 0
    THEN FirstZero(block, lo, (lo + hi) \div 2)
    ELSE FirstZero(block, (lo + hi) \div 2 + 1, hi)

\* String::from_utf8 of the bytes taken
TakenString(taken) == [ok |-> Utf8Valid(taken), val |-> taken]

\* read_block: block[lower..upper], taken while the bytes are not zero, as a
\* String (an error when the bytes are not UTF-8).  Offsets count from 0.
read_block(block, lower, upper) ==
    TakenString(SubSeq(block, lower + 1, FirstZero(block, lower + 1, upper) - 1))

\* Header::from_bytes, once the four fields are read and the numbers parsed
FromBytesParsed(block, name, size, sizeN, mtime, mtimeN, prefix) ==
    IF ~name.ok THEN Err("FromUtf8Error(Name)")
    ELSE IF ~size.ok THEN Err("FromUtf8Error(Size)")
    ELSE IF ~sizeN.ok THEN Err("IntoU64Error(Size)")
    ELSE IF ~mtime.ok THEN Err("FromUtf8Error(Mtime)")
    ELSE IF ~mtimeN.ok THEN Err("IntoU64Error(Mtime)")
    ELSE IF ~prefix.ok THEN Err("FromUtf8Error(Prefix)")
    ELSE Ok([name |-> name.val, size |-> sizeN.val, mtime |-> mtimeN.val,
             prefix |-> prefix.val, bytes |-> block])

FromBytesFields(block, name, size, mtime, prefix) ==
    FromBytesParsed(block, name, size, ParseU64(size.val), mtime, ParseU64(mtime.val),
                    prefix)

\* Header::from_bytes
from_bytes(block) ==
    FromBytesFields(block, read_block(block, 0, FILENAME),
                    read_block(block, SIZE_BEGIN, SIZE_END),
                    read_block(block, MTIME_BEGIN, MTIME_END),
                    read_block(block, PREFIX_BEGIN, HEADER_SIZE))

\* usize::checked_sub: None is written -1
checked_sub(a, b) == IF b <= a THEN a - b ELSE -1

\* Cursor<Vec<u8>>: seek to pos (from 0, within the vector), then
\* write_all(s); a write past the end grows the vector.
write_at(buf, pos, s) ==
    SubSeq(buf, 1, pos) \o s \o SubSeq(buf, pos + Len(s) + 1, Len(buf))

\* The metadata the filesystem gives for a path: whether fs::metadata
\* succeeds, the file's length, and the modification time (readable or not,
\* before the Unix epoch or not, and its whole seconds since the epoch).
NoMeta == [exists |-> FALSE, len |-> <<0>>, modified |-> "ok", secs |-> <<0>>]

\* the buffer Header::from_file fills: name, size, mtime and prefix written
\* at their offsets into HEADER_SIZE zero bytes
header_bytes(name, size_str, mtime_str, prefix) ==
    write_at(write_at(write_at(write_at(Rep(0, HEADER_SIZE),
        0, name), FILENAME, size_str), SIZE_END, mtime_str), MTIME_END, prefix)

\* Header::from_file, once the texts are derived: the checks, in the order
\* of the code (the name is checked by the length of the OsStr, before its
\* lossy conversion), then the header
FromFileTexts(metadata, fname, name, size_str, mtime_str, prefix) ==
    IF ~metadata.exists THEN Err("Metadata")
    ELSE IF ~fname.some THEN Err("EmptyName")
    ELSE IF checked_sub(FILENAME, Len(fname.val)) < 0 THEN Err("LengthExceededError::Name")
    ELSE IF checked_sub(SIZE, Len(size_str)) < 0 THEN Err("LengthExceededError::Size")
    ELSE IF metadata.modified = "unreadable" THEN Err("ReadLastModified")
    ELSE IF metadata.modified = "before_epoch" THEN Err("UnixEpoch")
    ELSE IF checked_sub(MTIME, Len(mtime_str)) < 0 THEN Err("LengthExceededError::Mtime")
    ELSE IF checked_sub(PREFIX, Len(prefix)) < 0 THEN Err("LengthExceededError::Prefix")
    ELSE Ok([name |-> name, size |-> metadata.len, mtime |-> metadata.secs,
             prefix |-> prefix,
             bytes |-> header_bytes(name, size_str, mtime_str, prefix)])

FromFileParts(metadata, fname, par) ==
    FromFileTexts(metadata, fname, to_string_lossy(fname.val),
                  U64ToString(metadata.len), U64ToString(metadata.secs),
                  IF par.some THEN to_string_lossy(par.val) ELSE <<>>)

\* Header::from_file
from_file(path, metadata) == FromFileParts(metadata, file_name(path), parent(path))

(***************************************************************************)
(* The filesystem the Reader extracts into.  A location is a path resolved *)
(* against the current directory: its normal components, after any leading *)
(* ".." (above the current directory) or the root.  files maps the         *)
(* locations of the regular files to their contents; dirs holds the        *)
(* directories that were made.  The current directory, what lies above it  *)
(* and the root always exist.                                              *)
(***************************************************************************)
RECURSIVE Resolve(_, _)
\* the kernel's walk over the components of a path: "." stays, ".." goes up
Resolve(cs, at) ==
    IF cs = <<>> THEN at
    ELSE IF Head(cs) = Dot THEN Resolve(Tail(cs), at)
    ELSE IF Head(cs) = Slash THEN Resolve(Tail(cs), <<Slash>>)
    ELSE IF Head(cs) # DotDot THEN Resolve(Tail(cs), Append(at, Head(cs)))
    ELSE IF at = <<>> \/ at[Len(at)] = DotDot THEN Resolve(Tail(cs), Append(at, DotDot))
    ELSE IF at[Len(at)] = Slash THEN Resolve(Tail(cs), at)
    ELSE Resolve(Tail(cs), SubSeq(at, 1, Len(at) - 1))

Location(p) == Resolve(components(p), <<>>)

EmptyDisk == [files |-> <<>>, dirs |-> {}]

\* a location that is a directory without having been made
AlwaysDir(loc) == loc = <<>> \/ loc[Len(loc)] \in {Slash, DotDot}

IsFileAt(d, loc) == loc \in DOMAIN d.files
IsDirAt(d, loc) == AlwaysDir(loc) \/ loc \in d.dirs

\* the locations of a path and of the paths above it
DirLocs(cs) == { Resolve(SubSeq(cs, 1, k), <<>>) : k \in 1..Len(cs) }

MakeDirs(d, locs) ==
    IF \E l \in locs : IsFileAt(d, l)
    THEN [ok |-> FALSE, disk |-> d]
    ELSE [ok |-> TRUE, disk |-> [d EXCEPT !.dirs = @ \cup {l \in locs : ~AlwaysDir(l)}]]

\* fs::create_dir_all(dir): every directory on the way is made unless it
\* exists; a regular file on the way is an error.
create_dir_all(d, dir) == MakeDirs(d, DirLocs(components(dir)))

\* the last piece of a path is a name (not empty, "." or "..")
LastPieceNamed(p, ps) == SubSeq(p, ps[Len(ps)].lo, ps[Len(ps)].hi) \notin {<<>>, Dot, DotDot}
EndsInName(p) == LastPieceNamed(p, Pieces(p))

OrElse(opt, other) == IF opt.some THEN opt.val ELSE other

CreateAt(d, loc, up, named, data) ==
    IF IsDirAt(d, loc) \/ ~IsDirAt(d, up) \/ ~named
    THEN [ok |-> FALSE, disk |-> d]
    ELSE [ok |-> TRUE,
          disk |-> [d EXCEPT !.files =
                      [l \in (DOMAIN d.files) \cup {loc} |->
                          IF l = loc THEN data ELSE d.files[l]]]]

\* File::create(path) followed by the copy of data into it: the file is
\* made or truncated; a directory at the path, a path that names no file,
\* or a missing parent directory is an error.
file_create(d, path, data) ==
    CreateAt(d, Location(path), Location(OrElse(parent(path), <<>>)),
             EndsInName(path), data)

(***************************************************************************)
(* reader.rs                                                               *)
(***************************************************************************)
TrimCleaned(cleaned) ==
    IF starts_with_root(cleaned) THEN strip_root(cleaned) ELSE cleaned

\* trim_clean: the cleaned path, without its root when it has one
trim_clean(p) == TrimCleaned(clean(p))

\* [&header.prefix, &header.name].iter().collect::<PathBuf>()
original_path(header) == push(push(<<>>, header.prefix), header.name)

\* header.size as a stream distance; a size of ten digits or more lies past
\* the end of every stream of the model
SizeInt(header) ==
    IF Len(header.size) <= 9 THEN U64ToInt(header.size) ELSE 1000000000

\* file.read(&mut buf): the bytes read at pos, at most want of them
read_at(stream, pos, want) ==
    SubSeq(stream, pos + 1, Min2(Len(stream), pos + want))

\* a test that lets a block one byte short pass
incomplete_lax(buf) == Len(buf) < HEADER_SIZE - 1

\* the test that ends Reader::new's scan with IncompleteHeader
incomplete(buf) == Len(buf) # HEADER_SIZE

RECURSIVE IndexFrom(_, _, _)
IndexHeader(stream, pos, hs, header) ==
    IF ~header.ok
    THEN [ok |-> FALSE, err |-> header.err, headers |-> hs, cursor |-> pos + HEADER_SIZE]
    ELSE IndexFrom(stream, pos + HEADER_SIZE + SizeInt(header.hdr), Append(hs, header.hdr))

\* a scan that takes the end of the stream for the end of the archive
IndexBlockLenient(stream, pos, hs, buf) ==
    IF buf = <<>> \/ buf = EOF_BLOCK
    THEN [ok |-> TRUE, err |-> "", headers |-> hs, cursor |-> pos + Len(buf)]
    ELSE IF incomplete(buf)
    THEN [ok |-> FALSE, err |-> "IncompleteHeader", headers |-> hs, cursor |-> pos + Len(buf)]
    ELSE IndexHeader(stream, pos, hs, from_bytes(buf))

IndexBlock(stream, pos, hs, buf) ==
    IF incomplete(buf)
    THEN [ok |-> FALSE, err |-> "IncompleteHeader", headers |-> hs, cursor |-> pos + Len(buf)]
    ELSE IF buf = EOF_BLOCK
    THEN [ok |-> TRUE, err |-> "", headers |-> hs, cursor |-> pos + HEADER_SIZE]
    ELSE IndexHeader(stream, pos, hs, from_bytes(buf))

\* Reader::new, the loop: read a block, stop at the terminator, decode,
\* seek over the payload.
IndexFrom(stream, pos, hs) == IndexBlock(stream, pos, hs, read_at(stream, pos, HEADER_SIZE))

\* Reader::new
reader_new(stream) == IndexFrom(stream, 0, <<>>)

\* a call that leaves the stream where the last call left it
no_rewind(cur) == cur

\* self.file.rewind()
rewind(cur) == 0

\* io::copy(&mut (&mut self.file).take(size), ..): the bytes copied from cur
take_copy(stream, cur, size) == read_at(stream, cur, size)

\* the path an entry is extracted to
entry_path(destination, header) == join(destination, trim_clean(original_path(header)))

\* path.parent().unwrap_or(destination)
dir_of(path, destination) == OrElse(parent(path), destination)

Written(i, path, at, data) == [entry |-> i, path |-> path, at |-> at, data |-> data]

\* Reader::extract_to, the loop over the index from entry i on.  rd holds
\* the destination, the index and the stream; at is the stream position
\* after the seek over the header block.
RECURSIVE ExtractToFrom(_, _, _, _, _)
ToCreated(rd, i, at, writes, path, dirs, data, file) ==
    IF ~file.ok
    THEN [ok |-> FALSE, cursor |-> at, disk |-> dirs, writes |-> writes]
    ELSE ExtractToFrom(rd, i + 1, at + Len(data), file.disk,
                       Append(writes, Written(i, path, at, data)))

ToCopy(rd, i, at, writes, path, dirs, data) ==
    ToCreated(rd, i, at, writes, path, dirs, data, file_create(dirs, path, data))

ToDirs(rd, i, at, d, writes, path, dirs) ==
    IF ~dirs.ok
    THEN [ok |-> FALSE, cursor |-> at, disk |-> d, writes |-> writes]
    ELSE ToCopy(rd, i, at, writes, path, dirs.disk,
                take_copy(rd.stream, at, SizeInt(rd.hs[i])))

ToPath(rd, i, at, d, writes, path) ==
    ToDirs(rd, i, at, d, writes, path, create_dir_all(d, dir_of(path, rd.destination)))

ExtractToFrom(rd, i, cur, d, writes) ==
    IF i > Len(rd.hs)
    THEN [ok |-> TRUE, cursor |-> cur, disk |-> d, writes |-> writes]
    ELSE ToPath(rd, i, cur + HEADER_SIZE, d, writes, entry_path(rd.destination, rd.hs[i]))

\* Reader::extract_to
extract_to(destination, hs, stream, cur, d) ==
    ExtractToFrom([destination |-> destination, hs |-> hs, stream |-> stream],
                  1, rewind(cur), d, <<>>)

\* the test of extract_file's scan: the target is the entry's name, its
\* cleaned path or its path as stored
matches(header, filename) ==
    \/ PathEq(header.name, filename)
    \/ PathEq(trim_clean(original_path(header)), filename)
    \/ PathEq(original_path(header), filename)

\* a scan that goes on to the next entry after a match
keep_scanning(i, n) == i + 1

\* where extract_file's scan goes on after entry i was extracted: break
after_match(i, n) == n + 1

\* offset += HEADER_SIZE
after_header(offset) == offset + HEADER_SIZE

\* a scan that forgets the payload of the entries it passes
payload_forgotten(offset, header) == offset

\* offset += header.size
after_payload(offset, header) == offset + SizeInt(header)

\* Reader::extract_file, the loop over the index from entry i on; offset is
\* the stream offset of entry i's header, at the offset of its payload, cur
\* the position of the stream.
RECURSIVE ExtractFileFrom(_, _, _, _, _, _, _)
FileCreated(filename, rd, i, at, cur, writes, path, dirs, data, file) ==
    IF ~file.ok
    THEN [ok |-> FALSE, cursor |-> cur, disk |-> dirs, writes |-> writes]
    ELSE ExtractFileFrom(filename, rd, after_match(i, Len(rd.hs)),
                         after_payload(at, rd.hs[i]), at + Len(data), file.disk,
                         Append(writes, Written(i, path, at, data)))

FileCopy(filename, rd, i, at, cur, writes, path, dirs, data) ==
    FileCreated(filename, rd, i, at, cur, writes, path, dirs, data,
                file_create(dirs, path, data))

FileDirs(filename, rd, i, at, cur, d, writes, path, dirs) ==
    IF ~dirs.ok
    THEN [ok |-> FALSE, cursor |-> cur, disk |-> d, writes |-> writes]
    ELSE FileCopy(filename, rd, i, at, cur, writes, path, dirs.disk,
                  take_copy(rd.stream, at, SizeInt(rd.hs[i])))

FilePath(filename, rd, i, at, cur, d, writes, path) ==
    FileDirs(filename, rd, i, at, cur, d, writes, path,
             create_dir_all(d, dir_of(path, rd.destination)))

ExtractFileFrom(filename, rd, i, offset, cur, d, writes) ==
    IF i > Len(rd.hs)
    THEN [ok |-> TRUE, cursor |-> cur, disk |-> d, writes |-> writes]
    ELSE IF ~matches(rd.hs[i], filename)
    THEN ExtractFileFrom(filename, rd, i + 1, after_payload(after_header(offset), rd.hs[i]),
                         cur, d, writes)
    ELSE FilePath(filename, rd, i, after_header(offset), cur, d, writes,
                  entry_path(rd.destination, rd.hs[i]))

\* Reader::extract_file
extract_file(filename, destination, hs, stream, cur, d) ==
    ExtractFileFrom(filename, [destination |-> destination, hs |-> hs, stream |-> stream],
                    1, 0, rewind(cur), d, <<>>)

(***************************************************************************)
(* The files the Writer reads.  SrcTable lists what is on the filesystem:  *)
(* regular files with their contents and modification times, and one entry *)
(* that is neither a regular file nor a directory.  The directories are    *)
(* the proper prefixes of the listed paths.                                *)
(***************************************************************************)
P_tw == <<116, 47, 119>>                  \* "t/w"
P_f == <<116, 47, 119, 47, 102, 46, 116, 120, 116>>       \* "t/w/f.txt"
P_g == <<116, 47, 119, 47, 100, 47, 103, 46, 116, 120, 116>>   \* "t/w/d/g.txt"
P_dev == <<116, 47, 119, 47, 100, 101, 118>>   \* "t/w/dev"
P_top == <<116, 111, 112, 46, 116, 120, 116>>          \* "top.txt"
P_up == <<46, 46, 47, 117, 47, 120>>                \* "../u/x"
P_abs == <<47, 114, 47, 102>>                   \* "/r/f"
P_old == <<116, 47, 111, 108, 100>>            \* "t/old"

SrcTable ==
    { [path |-> P_f, kind |-> "file", data |-> <<104, 105>>, secs |-> <<1,7,0,0,0,0,0,0,0,1>>],
      [path |-> P_g, kind |-> "file", data |-> <<121, 111, 33>>, secs |-> <<1,7,0,0,0,0,0,0,0,2>>],
      [path |-> P_dev, kind |-> "other", data |-> <<>>, secs |-> <<1,7,0,0,0,0,0,0,0,3>>],
      [path |-> P_top, kind |-> "file", data |-> <<>>, secs |-> <<0>>],
      [path |-> P_up, kind |-> "file", data |-> <<88>>, secs |-> <<1,7,0,0,0,0,0,0,0,4>>],
      [path |-> P_abs, kind |-> "file", data |-> <<82>>, secs |-> <<1,7,0,0,0,0,0,0,0,5>>],
      [path |-> P_old, kind |-> "file", data |-> <<111>>, secs |-> <<1>> \o Rep(0, MTIME)] }

SrcPaths == { e.path : e \in SrcTable }
SrcEntry(p) == CHOOSE e \in SrcTable : e.path = p

\* the components cq begin with the components cp, and there are more
Below(cq, cp) == Len(cq) > Len(cp) /\ SubSeq(cq, 1, Len(cp)) = cp
IsUnder(q, p) == Below(components(q), components(p))

\* Path::is_dir, Path::is_file on the filesystem fsNow (the paths present)
is_dir(fsNow, p) == \E q \in fsNow : IsUnder(q, p)
is_file(fsNow, p) == p \in fsNow /\ SrcEntry(p).kind = "file"

\* fs::metadata(path)
metadata_of(fsNow, p) ==
    IF p \in fsNow
    THEN [exists |-> TRUE, len |-> U64FromInt(Len(SrcEntry(p).data)),
          modified |-> "ok", secs |-> SrcEntry(p).secs]
    ELSE IF is_dir(fsNow, p)
    THEN [exists |-> TRUE, len |-> <<0>>, modified |-> "ok", secs |-> <<0>>]
    ELSE NoMeta

\* the names in directory dir
Children(fsNow, dir) ==
    { components(q)[Len(components(dir)) + 1] : q \in {q \in fsNow : IsUnder(q, dir)} }

\* the orders in which read_dir may list a set of names
Orders(S) ==
    { o \in [1..Cardinality(S) -> S] : \A a, b \in 1..Cardinality(S) : o[a] = o[b] => a = b }

(***************************************************************************)
(* writer.rs                                                               *)
(***************************************************************************)
RECURSIVE AddAll(_, _, _), add(_, _)
\* the loop of Writer::add over the listing of a directory: the lists of
\* paths it can append, one per choice made below
AddAll(fsNow, dir, names) ==
    IF names = <<>> THEN { <<>> }
    ELSE { a \o b : a \in add(fsNow, join(dir, Head(names))),
                    b \in AddAll(fsNow, dir, Tail(names)) }

\* Writer::add(path): the lists of paths it can append to self.paths, one per
\* order in which the directories may be listed
add(fsNow, path) ==
    IF is_dir(fsNow, path)
    THEN UNION { AddAll(fsNow, path, o) : o \in Orders(Children(fsNow, path)) }
    ELSE IF is_file(fsNow, path) THEN { <<path>> }
    ELSE { <<>> }

\* what one entry adds to the archive: the header block, then the content
entry_bytes(header, data) == header.bytes \o data

\* an end without the terminator block
finish_none(out) == out

\* the end of Writer::write: the terminator block
finish(out) == out \o EOF_BLOCK

\* Writer::write, the loop over self.paths from entry i on
RECURSIVE WriteFrom(_, _, _, _)
WriteEntry(fsNow, paths, i, out, header) ==
    IF ~header.ok THEN [ok |-> FALSE, err |-> header.err, out |-> out]
    ELSE WriteFrom(fsNow, paths, i + 1,
                   out \o entry_bytes(header.hdr, SrcEntry(paths[i]).data))

WriteFrom(fsNow, paths, i, out) ==
    IF i > Len(paths) THEN [ok |-> TRUE, err |-> "", out |-> finish(out)]
    ELSE WriteEntry(fsNow, paths, i, out, from_file(paths[i], metadata_of(fsNow, paths[i])))

\* Writer::write
write(fsNow, paths, out) == WriteFrom(fsNow, paths, 1, out)

\* Writer::files_count, Reader::files_count, Reader::headers
files_count(list) == Len(list)

(***************************************************************************)
(* State                                                                   *)
(***************************************************************************)
VARIABLES
    c_in,       \* codec: the path given to Header::from_file and its metadata
    c_enc,      \* codec: what Header::from_file returned
    c_dec,      \* codec: what Header::from_bytes returned for c_enc's bytes
    c_pc,       \* codec: "none", "start", "encoded", "decoded"
    fs,         \* the paths of SrcTable present on the filesystem
    w_pc,       \* Writer: "none", "created", "done" (write returned Ok), "failed"
    w_paths,    \* Writer.paths (kept after write, which consumes the Writer)
    w_err,      \* the error Writer::write returned
    archive,    \* the bytes of the archive file
    made,       \* the entries a hand-made archive was put together from
    r_pc,       \* Reader: "none", "closed", "open" (Reader::new returned Ok), "failed"
    r_err,      \* the error Reader::new returned
    headers,    \* Reader.headers
    cursor,     \* the position of Reader.file
    disk,       \* the filesystem the Reader extracts into
    last        \* the last extract call: its arguments, result and file writes

codecVars == <<c_in, c_enc, c_dec, c_pc>>
writerVars == <<fs, w_pc, w_paths, w_err>>
readerVars == <<r_pc, r_err, headers, cursor, disk, last>>
vars == <<c_in, c_enc, c_dec, c_pc, fs, w_pc, w_paths, w_err, archive, made,
          r_pc, r_err, headers, cursor, disk, last>>

NoCall == [op |-> "none", filename |-> <<>>, destination |-> <<>>, ok |-> TRUE,
           writes |-> <<>>]

Call(op, filename, destination, r) ==
    [op |-> op, filename |-> filename, destination |-> destination, ok |-> r.ok,
     writes |-> r.writes]

CodecIdle ==
    /\ c_in = [path |-> <<>>, metadata |-> NoMeta]
    /\ c_enc = Err("pending")
    /\ c_dec = Err("pending")
    /\ c_pc = "none"

WriterIdle ==
    /\ fs = SrcPaths
    /\ w_pc = "none"
    /\ w_paths = <<>>
    /\ w_err = ""

ReaderInit(pc) ==
    /\ r_pc = pc
    /\ r_err = ""
    /\ headers = <<>>
    /\ cursor = 0
    /\ disk = EmptyDisk
    /\ last = NoCall

(***************************************************************************)
(* The codec on its own: Header::from_file on a path, then                 *)
(* Header::from_bytes on the block it produced.                            *)
(***************************************************************************)
\* File names: short, at and over the width of the name field, and names of
\* 0xFF bytes (not UTF-8) whose lossy text is three times as long.
CodecNames ==
    { Rep(97, 1), Rep(97, FILENAME), Rep(97, FILENAME + 1),
      Rep(255, 85), Rep(255, 86) }

\* Directory parts: none, "d", "../d", "/", and at and over the prefix width
CodecDirs ==
    { <<>>, <<100>>, <<46, 46, 47, 100>>, Slash,
      Rep(97, PREFIX), Rep(97, PREFIX + 1) }

\* Paths: a name alone, a name in a directory, and "/" and ".." (no file name)
CodecPaths ==
    { push(d, n) : d \in CodecDirs, n \in CodecNames } \cup { Slash, DotDot }

\* File lengths: 0, 11, 14 nines, 10^14 (15 digits), u64::MAX
CodecLens == { <<0>>, <<1, 1>>, Rep(9, SIZE), <<1>> \o Rep(0, SIZE), U64MaxDigits }

\* Modification times: 1700000000, 12 nines, 10^12 (13 digits)
CodecSecs == { <<1,7,0,0,0,0,0,0,0,0>>, Rep(9, MTIME), <<1>> \o Rep(0, MTIME) }

CodecMetadata ==
    { [exists |-> TRUE, len |-> l, modified |-> "ok", secs |-> t] :
        l \in CodecLens, t \in CodecSecs }
    \cup { [exists |-> TRUE, len |-> l, modified |-> m, secs |-> <<0>>] :
        l \in CodecLens, m \in {"unreadable", "before_epoch"} }
    \cup { NoMeta }

CodecInit ==
    /\ c_in \in { [path |-> p, metadata |-> m] : p \in CodecPaths, m \in CodecMetadata }
    /\ c_enc = Err("pending")
    /\ c_dec = Err("pending")
    /\ c_pc = "start"
    /\ WriterIdle
    /\ archive = <<>>
    /\ made = <<>>
    /\ ReaderInit("none")

\* Header::from_file(path)
EncodeFile ==
    /\ c_pc = "start"
    /\ c_enc' = from_file(c_in.path, c_in.metadata)
    /\ c_pc' = "encoded"
    /\ UNCHANGED <<c_in, c_dec, writerVars, archive, made, readerVars>>

\* Header::from_bytes(&header.bytes)
DecodeBlock ==
    /\ c_pc = "encoded"
    /\ c_enc.ok
    /\ c_dec' = from_bytes(c_enc.hdr.bytes)
    /\ c_pc' = "decoded"
    /\ UNCHANGED <<c_in, c_enc, writerVars, archive, made, readerVars>>

CodecNext == EncodeFile \/ DecodeBlock

SpecCodec == CodecInit /\ [][CodecNext]_vars

(***************************************************************************)
(* The Writer                                                              *)
(***************************************************************************)
\* the longest list of pending paths
MaxPaths == 2

\* the paths given to Writer::add: a directory, files, and a path that does
\* not exist
P_none == <<110, 111, 112, 101>>              \* "nope"
AddArgs == { P_tw, P_top, P_up, P_abs, P_old, P_none }

Range(q) == { q[k] : k \in 1..Len(q) }

\* Writer::add(path)
Add ==
    /\ w_pc = "created"
    /\ \E path \in AddArgs : \E added \in add(fs, path) :
          /\ Len(w_paths) + Len(added) <= MaxPaths
          /\ w_paths' = w_paths \o added
    /\ UNCHANGED <<codecVars, fs, w_pc, w_err, archive, made, readerVars>>

\* The environment: a file that was added is removed before write.
Unlink ==
    /\ w_pc = "created"
    /\ fs = SrcPaths
    /\ \E path \in Range(w_paths) : fs' = fs \ {path}
    /\ UNCHANGED <<codecVars, w_pc, w_paths, w_err, archive, made, readerVars>>

\* Writer::write(self)
Write ==
    /\ w_pc = "created"
    /\ \E r \in { write(fs, w_paths, archive) } :
          /\ archive' = r.out
          /\ w_pc' = IF r.ok THEN "done" ELSE "failed"
          /\ w_err' = r.err
    /\ UNCHANGED <<codecVars, fs, w_paths, made, readerVars>>

(***************************************************************************)
(* The Reader                                                              *)
(***************************************************************************)
Out == <<111, 117, 116>>                \* "out"

\* the names and paths given to Reader::extract_file
T_file == <<102, 105, 108, 101, 46, 116, 120, 116>>          \* "file.txt"
T_abfile == <<97, 47, 98, 47, 102, 105, 108, 101, 46, 116, 120, 116>>   \* "a/b/file.txt"
T_dup == <<100, 117, 112, 46, 116, 120, 116>>               \* "dup.txt"
T_passwd == <<112, 97, 115, 115, 119, 100>>               \* "passwd"
T_etcpasswd == <<101, 116, 99, 47, 112, 97, 115, 115, 119, 100>>    \* "etc/passwd"
T_absetc == <<47, 101, 116, 99, 47, 112, 97, 115, 115, 119, 100>>    \* "/etc/passwd"
Targets == { T_file, T_abfile, T_dup, T_etcpasswd, T_absetc }

\* Reader::new(path): the archive file is read once the Writer, if there was
\* one, is gone
ReaderNew ==
    /\ r_pc = "closed"
    /\ w_pc # "created"
    /\ \E r \in { reader_new(archive) } :
          /\ r_pc' = IF r.ok THEN "open" ELSE "failed"
          /\ r_err' = r.err
          /\ headers' = IF r.ok THEN r.headers ELSE <<>>
          /\ cursor' = r.cursor
    /\ UNCHANGED <<codecVars, writerVars, archive, made, disk, last>>

\* Reader::extract_to(destination)
ExtractTo ==
    /\ r_pc = "open"
    /\ \E r \in { extract_to(Out, headers, archive, cursor, disk) } :
          /\ cursor' = r.cursor
          /\ disk' = r.disk
          /\ last' = Call("extract_to", <<>>, Out, r)
    /\ UNCHANGED <<codecVars, writerVars, archive, made, r_pc, r_err, headers>>

\* Reader::extract()
Extract ==
    /\ r_pc = "open"
    /\ \E r \in { extract_to(Dot, headers, archive, cursor, disk) } :
          /\ cursor' = r.cursor
          /\ disk' = r.disk
          /\ last' = Call("extract", <<>>, Dot, r)
    /\ UNCHANGED <<codecVars, writerVars, archive, made, r_pc, r_err, headers>>

\* Reader::extract_file(filename, destination)
ExtractFile ==
    /\ r_pc = "open"
    /\ \E filename \in Targets :
          \E r \in { extract_file(filename, Out, headers, archive, cursor, disk) } :
             /\ cursor' = r.cursor
             /\ disk' = r.disk
             /\ last' = Call("extract_file", filename, Out, r)
    /\ UNCHANGED <<codecVars, writerVars, archive, made, r_pc, r_err, headers>>

(***************************************************************************)
(* Writer, then Reader: files are added, the archive is written, opened    *)
(* and extracted whole, into "out" or into the current directory.          *)
(***************************************************************************)
Init ==
    /\ CodecIdle
    /\ fs = SrcPaths
    /\ w_pc = "created"
    /\ w_paths = <<>>
    /\ w_err = ""
    /\ archive = <<>>
    /\ made = <<>>
    /\ ReaderInit("closed")

Next == Add \/ Unlink \/ Write \/ ReaderNew \/ ExtractTo \/ Extract

Spec == Init /\ [][Next]_vars

(***************************************************************************)
(* The Reader on hand-made archives: any entries, well-formed or not, with *)
(* or without a terminator block, extracted whole or file by file.         *)
(***************************************************************************)
\* the most entries of a hand-made archive
MaxEntries == 2

\* a header block holding the given field texts
MkBlock(e) ==
    write_at(write_at(write_at(write_at(Rep(0, HEADER_SIZE),
        0, e.name), FILENAME, e.size), SIZE_END, e.mtime), MTIME_END, e.prefix)

Entry(name, prefix, size, data) ==
    [name |-> name, prefix |-> prefix, size |-> size, mtime |-> <<49>>, data |-> data]

E_file == Entry(T_file, <<97, 47, 98>>, <<49, 49>>, <<104, 101, 108, 108, 111, 32, 119, 111, 114, 108, 100>>)   \* a/b/file.txt, "hello world"
E_dupx == Entry(T_dup, <<120>>, <<49>>, <<65>>)          \* x/dup.txt, "A"
E_dupy == Entry(T_dup, <<121>>, <<50>>, <<66, 66>>)          \* y/dup.txt, "BB"
E_trav == Entry(T_passwd, <<46, 46, 47, 46, 46, 47, 101, 116, 99>>, <<49>>, <<80>>)   \* ../../etc/passwd, "P"
E_abs == Entry(T_passwd, <<47, 101, 116, 99>>, <<49>>, <<81>>)    \* /etc/passwd, "Q"
E_etc == Entry(<<101, 116, 99>>, <<>>, <<49>>, <<69>>)    \* etc, "E"
E_short == Entry(<<98, 105, 103>>, <<>>, <<57, 57, 57, 57, 57>>, <<90>>)  \* big: size 99999, 1 byte
E_bad == Entry(<<98, 97, 100>>, <<>>, <<49, 120>>, <<90>>)   \* bad: size "1x"

Candidates == { E_file, E_dupx, E_dupy, E_trav, E_abs, E_etc, E_short, E_bad }

\* what may follow the last entry: the terminator block, nothing, a block of
\* zeros one byte short
Tails == { EOF_BLOCK, <<>>, Rep(0, HEADER_SIZE - 1) }

\* the archives: at most MaxEntries entries, no entry twice
Archives ==
    { es \in UNION { [1..n -> Candidates] : n \in 0..MaxEntries } :
        \A a, b \in 1..Len(es) : es[a] = es[b] => a = b }

RECURSIVE Entries(_)
Entries(es) ==
    IF es = <<>> THEN <<>>
    ELSE MkBlock(Head(es)) \o Head(es).data \o Entries(Tail(es))

ReaderSpecInit ==
    /\ CodecIdle
    /\ WriterIdle
    /\ made \in Archives
    /\ \E t \in Tails : archive = Entries(made) \o t
    /\ ReaderInit("closed")

ReaderNext == ReaderNew \/ ExtractTo \/ ExtractFile

SpecReader == ReaderSpecInit /\ [][ReaderNext]_vars

(***************************************************************************)
(* Properties                                                              *)
(***************************************************************************)
\* location loc lies strictly below the directory at location d
Under(loc, d) ==
    /\ Len(loc) > Len(d)
    /\ SubSeq(loc, 1, Len(d)) = d
    /\ \A k \in (Len(d) + 1)..Len(loc) : loc[k] \notin {Slash, DotDot}

Inside(destination, path) == Under(Location(path), Location(destination))

\* bytes begin+1 .. begin+width of a block hold text, then zeros
Slot(bytes, begin, width, text) ==
    SubSeq(bytes, begin + 1, begin + width) = text \o Rep(0, width - Len(text))

\* the entries of a hand-made archive: the path stored, the size declared
Raw(e) == push(push(<<>>, e.prefix), e.name)
Decodable(e) == ParseU64(e.size).ok /\ Len(ParseU64(e.size).val) <= 9
Declared(e) == U64ToInt(ParseU64(e.size).val)
WellFormed(e) == Decodable(e) /\ Declared(e) = Len(e.data)

RECURSIVE EntriesLen(_)
EntriesLen(es) ==
    IF es = <<>> THEN 0
    ELSE HEADER_SIZE + Len(Head(es).data) + EntriesLen(Tail(es))

RECURSIVE HeadersLen(_)
HeadersLen(hs) ==
    IF hs = <<>> THEN 0
    ELSE HEADER_SIZE + SizeInt(Head(hs)) + HeadersLen(Tail(hs))

RECURSIVE DeclaredLen(_)
DeclaredLen(es) ==
    IF es = <<>> THEN 0
    ELSE HEADER_SIZE + Declared(Head(es)) + DeclaredLen(Tail(es))

\* the offset of the payload of entry i: 4377 + sum over j < i of (4377 + size_j)
PayloadAt(es, i) == HEADER_SIZE + DeclaredLen(SubSeq(es, 1, i - 1))

MatchesEntry(e, t) ==
    \/ PathEq(e.name, t)
    \/ PathEq(trim_clean(Raw(e)), t)
    \/ PathEq(Raw(e), t)

HasMatch(es, t) == \E i \in 1..Len(es) : MatchesEntry(es[i], t)
FirstMatch(es, t) ==
    CHOOSE i \in 1..Len(es) :
        MatchesEntry(es[i], t) /\ \A j \in 1..(i - 1) : ~MatchesEntry(es[j], t)

\* ---- C1 ----------------------------------------------------------------
\* the path of a source file relative to the destination: its components
\* without the root
RelParts(p) == SelectSeq(components(p), LAMBDA c : c # Slash)

Reproduced(p) ==
    LET loc == Resolve(RelParts(p), Location(Out))
    IN  /\ Under(loc, Location(Out))
        /\ IsFileAt(disk, loc)
        /\ disk.files[loc] = SrcEntry(p).data

\* C1: round trip.  After add, a successful write, Reader::new and
\* extract_to(dest), every file that was added has a file under dest, at the
\* relative path of the source path, with the same bytes.
C1_RoundTrip ==
    (w_pc = "done" /\ last.op = "extract_to") =>
        \A k \in 1..Len(w_paths) : Reproduced(w_paths[k])

\* the source ../u/x was written, indexed and extracted, and its copy is not
\* under dest
C1_Witness ==
    /\ w_pc = "done"
    /\ last.op = "extract_to"
    /\ last.ok
    /\ P_up \in Range(w_paths)
    /\ ~Reproduced(P_up)
    /\ IsFileAt(disk, <<<<117>>, <<120>>>>)

\* ---- C2 ----------------------------------------------------------------
\* C2: path-traversal safety.  Every file an extract call creates lies
\* strictly inside the destination directory, whatever the prefix and name
\* of the entry.
C2_TraversalSafe ==
    last.op # "none" =>
        \A k \in 1..Len(last.writes) : Inside(last.destination, last.writes[k].path)

\* the entry ../../etc/passwd was extracted by extract_to("out") to a
\* location above the current directory
C2_Witness ==
    /\ last.op = "extract_to"
    /\ \E k \in 1..Len(last.writes) :
          /\ made[last.writes[k].entry] = E_trav
          /\ Location(last.writes[k].path) = <<DotDot, <<101, 116, 99>>, T_passwd>>
          /\ IsFileAt(disk, Location(last.writes[k].path))

\* ---- C3 ----------------------------------------------------------------
InSlots(h) ==
    /\ Len(h.bytes) = HEADER_SIZE
    /\ Slot(h.bytes, 0, FILENAME, h.name)
    /\ Slot(h.bytes, SIZE_BEGIN, SIZE, U64ToString(h.size))
    /\ Slot(h.bytes, MTIME_BEGIN, MTIME, U64ToString(h.mtime))
    /\ Slot(h.bytes, PREFIX_BEGIN, PREFIX, h.prefix)

SameFields(a, b) ==
    /\ a.name = b.name
    /\ a.size = b.size
    /\ a.mtime = b.mtime
    /\ a.prefix = b.prefix

\* C3: header codec inverse law.  When Header::from_file succeeds its bytes
\* are 4377 long with every field in its slot, and Header::from_bytes of
\* those bytes succeeds with the same name, size, mtime and prefix.
C3_InverseLaw ==
    /\ (c_pc \in {"encoded", "decoded"} /\ c_enc.ok) => InSlots(c_enc.hdr)
    /\ c_pc = "decoded" => (c_dec.ok /\ SameFields(c_dec.hdr, c_enc.hdr))

\* from_file succeeded on a name of 86 bytes 0xFF and from_bytes does not
\* give its fields back
C3_Witness ==
    /\ c_pc = "decoded"
    /\ c_enc.ok
    /\ file_name(c_in.path).val = Rep(255, 86)
    /\ ~(c_dec.ok /\ SameFields(c_dec.hdr, c_enc.hdr))

\* ---- C4 ----------------------------------------------------------------
\* the lengths the checks of Header::from_file are about
NameLen == Len(file_name(c_in.path).val)
SizeLen == Len(c_in.metadata.len)
MtimeLen == Len(c_in.metadata.secs)
PrefixLen == Len(to_string_lossy(OrElse(parent(c_in.path), <<>>)))
Checked ==
    /\ c_pc # "start"
    /\ c_in.metadata.exists
    /\ file_name(c_in.path).some

\* the widths alone: 255/256, 14/15, 12/13, 4096/4097, in the order of the
\* checks
C4_Widths ==
    Checked =>
        /\ NameLen > FILENAME => c_enc.err = "LengthExceededError::Name"
        /\ (NameLen <= FILENAME /\ SizeLen > SIZE)
              => c_enc.err = "LengthExceededError::Size"
        /\ (NameLen <= FILENAME /\ SizeLen <= SIZE /\ c_in.metadata.modified = "ok"
              /\ MtimeLen > MTIME)
              => c_enc.err = "LengthExceededError::Mtime"
        /\ (NameLen <= FILENAME /\ SizeLen <= SIZE /\ c_in.metadata.modified = "ok"
              /\ MtimeLen <= MTIME /\ PrefixLen > PREFIX)
              => c_enc.err = "LengthExceededError::Prefix"
        /\ (NameLen <= FILENAME /\ SizeLen <= SIZE /\ c_in.metadata.modified = "ok"
              /\ MtimeLen <= MTIME /\ PrefixLen <= PREFIX)
              => c_enc.ok

\* C4: field-width boundaries.  Header::from_file accepts a name of 255
\* bytes, a size of 14 digits, an mtime of 12 digits and a prefix of 4096
\* bytes (or none), refuses one more of each with the error of that field,
\* and never cuts a value to fit: the buffer of an accepted header holds
\* every text whole in its slot.
C4_FieldWidths ==
    /\ C4_Widths
    /\ (Checked /\ c_enc.ok) =>
          /\ Len(c_enc.hdr.name) <= FILENAME
          /\ Slot(c_enc.hdr.bytes, 0, FILENAME, c_enc.hdr.name)
          /\ Slot(c_enc.hdr.bytes, SIZE_BEGIN, SIZE, U64ToString(c_enc.hdr.size))
          /\ Slot(c_enc.hdr.bytes, MTIME_BEGIN, MTIME, U64ToString(c_enc.hdr.mtime))
          /\ Slot(c_enc.hdr.bytes, PREFIX_BEGIN, PREFIX, c_enc.hdr.prefix)

\* a name of 86 bytes was accepted, its text is 258 bytes long and the name
\* slot of the buffer holds only the first 255 of them
C4_Witness ==
    /\ c_pc = "encoded"
    /\ c_enc.ok
    /\ NameLen = 86
    /\ Len(c_enc.hdr.name) = 258
    /\ SubSeq(c_enc.hdr.bytes, 1, FILENAME) = SubSeq(c_enc.hdr.name, 1, FILENAME)
    /\ SubSeq(c_enc.hdr.bytes, FILENAME + 1, 258) # SubSeq(c_enc.hdr.name, FILENAME + 1, 258)

\* ---- C5 ----------------------------------------------------------------
\* the stream ends where a header block is expected: the entries are whole
\* and fewer than 4377 bytes follow them
EndsShort ==
    /\ \A k \in 1..Len(made) : WellFormed(made[k])
    /\ Len(archive) < EntriesLen(made) + HEADER_SIZE

\* C5: truncated archive.  Reader::new on a stream that ends where a header
\* block is expected fails with IncompleteHeader and gives no Reader; a
\* Reader is only given when an all-zero block of 4377 bytes ends the index.
C5_Truncated ==
    /\ (r_pc # "closed" /\ EndsShort) =>
          (r_pc = "failed" /\ r_err = "IncompleteHeader" /\ headers = <<>>)
    /\ r_pc = "open" =>
          /\ Len(archive) >= HeadersLen(headers) + HEADER_SIZE
          /\ SubSeq(archive, HeadersLen(headers) + 1, HeadersLen(headers) + HEADER_SIZE)
                = EOF_BLOCK

\* Reader::new failed on two whole entries followed by 4376 zero bytes
C5_Witness ==
    /\ r_pc = "failed"
    /\ r_err = "IncompleteHeader"
    /\ Len(made) = 2
    /\ EndsShort
    /\ Len(archive) = EntriesLen(made) + HEADER_SIZE - 1

\* ---- C6 ----------------------------------------------------------------
FileOutcome(r) == [ok |-> r.ok, writes |-> r.writes, disk |-> r.disk, cursor |-> r.cursor]

\* "out/a/b/file.txt"
OutABFile == <<111, 117, 116, 47, 97, 47, 98, 47, 102, 105, 108, 101, 46, 116, 120, 116>>

\* the one write of an extract_file call that found entry i of es
Found(es, i, path) ==
    /\ last.writes = << Written(i, path, PayloadAt(es, i), es[i].data) >>
    /\ SubSeq(archive, PayloadAt(es, i) + 1, PayloadAt(es, i) + Declared(es[i])) = es[i].data
    /\ Len(es[i].data) = Declared(es[i])
    /\ IsFileAt(disk, Location(path))
    /\ disk.files[Location(path)] = es[i].data
    /\ IsDirAt(disk, Location(OrElse(parent(path), last.destination)))
    /\ es[i] = E_file => (path = OutABFile /\ Len(disk.files[Location(path)]) = 11)

\* C6: offset bookkeeping of extract_file.  A successful call whose target
\* first matches entry i (by name, cleaned path or stored path) reads at
\* offset 4377 + sum over j < i of (4377 + size_j), makes the directories and
\* the file dest/<cleaned prefix/name> and writes the size_i payload bytes of
\* entry i into it; file.txt and a/b/file.txt give the same result.
C6_OffsetBookkeeping ==
    /\ (r_pc = "open" /\ last.op = "extract_file" /\ last.ok
          /\ HasMatch(made, last.filename)) =>
          Found(made, FirstMatch(made, last.filename),
                join(last.destination,
                     trim_clean(Raw(made[FirstMatch(made, last.filename)]))))
    /\ (r_pc = "open" /\ HasMatch(made, T_file)) =>
          FileOutcome(extract_file(T_file, Out, headers, archive, cursor, disk))
            = FileOutcome(extract_file(T_abfile, Out, headers, archive, cursor, disk))

\* a/b/file.txt, the second entry, was found by its path and extracted
C6_Witness ==
    /\ r_pc = "open"
    /\ Len(made) = 2
    /\ made[1] = E_dupy
    /\ made[2] = E_file
    /\ last.op = "extract_file"
    /\ last.filename = T_abfile
    /\ last.ok
    /\ last.writes[1].at = HEADER_SIZE + HEADER_SIZE + 2
    /\ disk.files[Location(OutABFile)] = E_file.data

RECURSIVE SrcLen(_, _)
\* the length of the first n entries of the archive written for paths
SrcLen(paths, n) ==
    IF n = 0 THEN 0
    ELSE SrcLen(paths, n - 1) + HEADER_SIZE + Len(SrcEntry(paths[n]).data)

\* entry k of the archive is the header block of paths[k], not all zero,
\* with the content of the file right after it
EntryLaidOut(paths, k, at, data) ==
    /\ Len(archive) >= at + HEADER_SIZE + Len(data)
    /\ SubSeq(archive, at + 1, at + HEADER_SIZE) # EOF_BLOCK
    /\ from_bytes(SubSeq(archive, at + 1, at + HEADER_SIZE)).ok
    /\ PathEq(original_path(from_bytes(SubSeq(archive, at + 1, at + HEADER_SIZE)).hdr),
              paths[k])
    /\ from_bytes(SubSeq(archive, at + 1, at + HEADER_SIZE)).hdr.size = U64FromInt(Len(data))
    /\ SubSeq(archive, at + HEADER_SIZE + 1, at + HEADER_SIZE + Len(data)) = data

LaidOut(paths, n) ==
    \A k \in 1..n : EntryLaidOut(paths, k, SrcLen(paths, k - 1), SrcEntry(paths[k]).data)

\* C8: Writer layout.  A successful write leaves, for each pending path in
\* the order added, its 4377-byte header block (never all zero) and then its
\* content, back to back, then one all-zero block and nothing more; a failed
\* write leaves the entries before the failing one and no terminator.
C8_Layout ==
    /\ w_pc = "done" =>
          /\ LaidOut(w_paths, Len(w_paths))
          /\ Len(archive) = SrcLen(w_paths, Len(w_paths)) + HEADER_SIZE
          /\ SubSeq(archive, SrcLen(w_paths, Len(w_paths)) + 1, Len(archive)) = EOF_BLOCK
    /\ w_pc = "failed" =>
          /\ w_err # ""
          /\ \E n \in 0..(Len(w_paths) - 1) :
                LaidOut(w_paths, n) /\ Len(archive) = SrcLen(w_paths, n)

\* t/w/d/g.txt then t/w/f.txt were written
C8_Witness ==
    /\ w_pc = "done"
    /\ w_paths = <<P_g, P_f>>
    /\ Len(archive) = 3 * HEADER_SIZE + 5

\* ---- C9 ----------------------------------------------------------------
\* where Reader::new leaves the stream: after the terminator block
FreshCursor(hs) == HeadersLen(hs) + HEADER_SIZE

\* the call made on a Reader that was just opened
FirstCall(op, filename, destination) ==
    IF op = "extract_file"
    THEN extract_file(filename, destination, headers, archive, FreshCursor(headers), disk)
    ELSE extract_to(destination, headers, archive, FreshCursor(headers), disk)

CallOutcome(r) == [ok |-> r.ok, writes |-> r.writes, disk |-> r.disk]

\* C9: Reader operations are repeatable.  No extract, extract_to or
\* extract_file call, failing or not, changes the index or the files count,
\* and each call writes what it would write as the first call on a Reader
\* just opened: the stream position left by earlier calls does not matter.
C9_Repeatable ==
    [][ r_pc = "open" =>
          /\ headers' = headers
          /\ files_count(headers') = files_count(headers)
          /\ [ok |-> last'.ok, writes |-> last'.writes, disk |-> disk']
                = CallOutcome(FirstCall(last'.op, last'.filename, last'.destination)) ]_vars

\* extract_to failed part-way, after it wrote a file, and left the stream
\* in the middle of the archive
C9_Witness ==
    /\ r_pc = "open"
    /\ last.op = "extract_to"
    /\ ~last.ok
    /\ last.writes # <<>>
    /\ cursor # FreshCursor(headers)
    /\ cursor # 0

\* ---- C10 ---------------------------------------------------------------
\* entry i declares more bytes than the stream holds after its header
ShortAt(i) ==
    /\ \A j \in 1..(i - 1) : WellFormed(made[j])
    /\ Decodable(made[i])
    /\ Declared(made[i]) > Len(archive) - (EntriesLen(SubSeq(made, 1, i - 1)) + HEADER_SIZE)

Shortfall == \E i \in 1..Len(made) : ShortAt(i)

\* C10 as stated: Reader::new does not fail on a declared size longer than
\* the rest of the stream; it indexes the entry and gives a Reader.
C10_IndexedAnyway ==
    (r_pc # "closed" /\ Shortfall) =>
        (r_pc = "open" /\ \E i \in 1..Len(made) : ShortAt(i) /\ Len(headers) >= i)

\* C10: a declared size longer than the rest of the stream makes Reader::new
\* fail with IncompleteHeader at the header read that follows the seek over
\* the payload; no Reader is given and no extract call sees the entry.
C10_ShortfallFailsOpen ==
    (r_pc # "closed" /\ Shortfall) =>
        /\ r_pc = "failed"
        /\ r_err = "IncompleteHeader"
        /\ headers = <<>>
        /\ last = NoCall
        /\ disk = EmptyDisk

\* Reader::new failed on an archive that has its terminator block and whose
\* second entry declares 99999 bytes and holds one
C10_Witness ==
    /\ r_pc = "failed"
    /\ made = <<E_file, E_short>>
    /\ Len(archive) = EntriesLen(made) + HEADER_SIZE
    /\ ShortAt(2)
    /\ cursor > Len(archive)

=============================================================================
